---------------------------- MODULE Spec2Model ----------------------------
(***************************************************************************)
(* Bit-granular reader and writer over a byte stream (bitio-rs).           *)
(*                                                                         *)
(* A u64 register is modelled as the set of its set bit positions          *)
(* (0 = least significant, 63 = most significant): shifts move the         *)
(* positions and drop those that leave 0..63, `|` is union and `&` is      *)
(* intersection.  A usize counter is an integer; a negative integer -k     *)
(* stands for the wrapped value 2^64 - k that a release build (no          *)
(* overflow checks) leaves behind after an underflowing subtraction, a     *)
(* debug build panics there instead.                                       *)
(*                                                                         *)
(* The byte source is an in-memory stream shorter than the BufReader       *)
(* capacity, so a read of k bytes yields min(k, bytes left).               *)
(***************************************************************************)
EXTENDS Integers, Sequences, FiniteSets, TLC

VARIABLES
    overflow_checks,  \* build profile: TRUE = debug (panic on overflow), FALSE = release (wrap)
    src,              \* the bytes of the underlying source
    reader,           \* BitReader: [byte_order, inner, bits_buffer, bits_in_buffer]
    ret,              \* the last call on the reader and what it returned
    hist,             \* ghost: where the last call started in the ideal bit stream
    shadow,           \* a second BitReader on the same source that is never peeked
    sret,             \* what the shadow's last read_bits returned
    fast,             \* FastBitReaderBig/Little: [byte_order, raw, buffer, bits_available]
    fret,             \* what the fast reader's last read_bits_fast returned
    writer,           \* BitWriter: [byte_order, inner, bits_buffer, bits_in_buffer]
    wret,             \* the last call on the writer and what it returned
    log,              \* ghost: the (value, n) pairs accepted by write_bits, in order
    readback          \* ghost: how many pairs of log have been read back from the sink

vars == <<overflow_checks, src, reader, ret, hist, shadow, sret, fast, fret, writer, wret,
          log, readback>>

shadowVars == <<shadow, sret>>
fastVars == <<fast, fret>>
writerVars == <<writer, wret, log, readback>>

-----------------------------------------------------------------------------
(* Bounds of the model *)

\* longest source stream, in bytes (9 bytes = a 64-bit read after a 1..7-bit residue)
MaxLen == 9
\* widths 0..MaxNarrow are offered to every bit-level call (0 is the invalid width)
MaxNarrow == 3
\* longest of the short source streams of the side-by-side specifications
MaxShort == 2
\* most write_bits calls accepted by one writer
MaxWrites == 2
\* how far below zero a wrapped occupancy counter is followed
MaxWrap == 8
\* longest buffer handed to the byte passthrough read
MaxBuf == 2
\* most calls accepted by the writer of the passthrough specification
MaxPassCalls == 3

\* the widths offered: narrow ones (to build every residue), byte multiples,
\* and the wide ones that do not fit next to a residue, with the invalid 0 and 65
Widths == (0..MaxNarrow) \cup {8, 16} \cup (57..65)

\* the widths offered where two readers run side by side: the invalid 0 and 65, two
\* narrow ones, a wide one that fits next to a 3-bit residue and one that never fits
\* next to a residue
FewWidths == {0, 1, MaxNarrow, 58, 64, 65}

\* the widths offered to write_bits
WriterWidths == FewWidths \cup {8}

ByteOrders == {"BigEndian", "LittleEndian"}

\* the byte at index k (1-based) of the source pattern p
PatternByte(p, k) ==
    CASE p = "ones" -> 255
      [] p = "ramp" -> (18 + 34 * (k - 1)) % 256
      [] p = "alt"  -> IF k % 2 = 1 THEN 165 ELSE 60

Patterns == {"ones", "ramp", "alt"}

StreamsOf(pats, lens) == { [k \in 1..len |-> PatternByte(p, k)] : p \in pats, len \in lens }

\* the sources of a single reader: every length up to MaxLen
Streams == StreamsOf(Patterns, 0..MaxLen)

\* the sources where two readers run side by side: the short ones (where a fill meets
\* the end of the stream) and the longest
FewStreams == StreamsOf({"ones", "ramp"}, (0..MaxShort) \cup {MaxLen})

-----------------------------------------------------------------------------
(* u64 and u8 arithmetic on sets of bit positions *)

Min(a, b) == IF a < b THEN a ELSE b

Pow2(k) == 2 ^ k

U64Max == 0..63

\* x << k for 0 <= k < 64
Shl(x, k) == { i + k : i \in { j \in x : j + k <= 63 } }

\* x >> k for 0 <= k < 64
Shr(x, k) == { i - k : i \in { j \in x : j >= k } }

\* u64::wrapping_shl: the shift amount is taken modulo 64
WrappingShl(x, s) == Shl(x, s % 64)

\* (1u64 << n) - 1, and u64::MAX for n = 64
LowMask(n) == 0..(n - 1)

\* u64::from(b) for a byte b
ByteToU64(b) == { i \in 0..7 : (b \div Pow2(i)) % 2 = 1 }

RECURSIVE SumPow2(_)
SumPow2(s) == IF s = {} THEN 0
              ELSE LET i == CHOOSE j \in s : TRUE IN Pow2(i) + SumPow2(s \ {i})

\* x as u8
U64ToByte(x) == SumPow2(x \cap (0..7))

-----------------------------------------------------------------------------
(* usize arithmetic: a negative integer -k stands for 2^64 - k *)

Wrapped(x) == x < 0

UsizeLt(a, b) == IF Wrapped(a) = Wrapped(b) THEN a < b ELSE Wrapped(b)

UsizeGe(a, b) == ~UsizeLt(a, b)

\* a.saturating_sub(b)
SaturatingSub(a, b) == IF UsizeLt(a, b) THEN 0 ELSE a - b

\* a / 8 for a usize that is not wrapped; a wrapped one is at least 2^61, more than any cap
Div8(a) == IF Wrapped(a) THEN 8 ELSE a \div 8

-----------------------------------------------------------------------------
(* Results *)

Ok(v) == [kind |-> "Ok", val |-> v, bytes |-> <<>>]
OkBytes(b) == [kind |-> "Ok", val |-> {}, bytes |-> b]
Err(e) == [kind |-> e, val |-> {}, bytes |-> <<>>]
Panic == [kind |-> "panic", val |-> {}, bytes |-> <<>>]

-----------------------------------------------------------------------------
(* BitReader *)

\* BitReader::with_byte_order
NewReader(order) ==
    [byte_order |-> order, inner |-> 0, bits_buffer |-> {}, bits_in_buffer |-> 0]

\* the loop body of put_into_bits_buffer: merge one pulled byte into the register
\* (bytes are pulled only while bits_in_buffer + 8 <= 64, so the u32 shift
\* 64 - 8 - bits_in_buffer does not underflow here)
MergeByte(rd, b) ==
    LET shift == IF rd.byte_order = "BigEndian"
                 THEN 64 - 8 - rd.bits_in_buffer
                 ELSE rd.bits_in_buffer
    IN [rd EXCEPT !.bits_buffer = @ \cup WrappingShl(ByteToU64(b), shift),
                  !.bits_in_buffer = Min(@ + 8, 64)]

RECURSIVE MergeBytes(_, _)
MergeBytes(rd, bytes) ==
    IF bytes = <<>> THEN rd
    ELSE MergeBytes(MergeByte(rd, Head(bytes)), Tail(bytes))

\* fill: pull the bytes read_bits(n)/peek_bits(n) still needs
put_into_bits_buffer(rd, n) ==
    LET bits_needed == SaturatingSub(n, rd.bits_in_buffer)
        want == (bits_needed + 7) \div 8
        underflow == UsizeLt(64, rd.bits_in_buffer)
        max_bytes_needed == Div8(64 - rd.bits_in_buffer)
        bytes_needed == IF want > max_bytes_needed THEN max_bytes_needed ELSE want
        got == Min(bytes_needed, Len(src) - rd.inner)
        pulled == [rd EXCEPT !.inner = @ + got]
    IN IF underflow /\ overflow_checks THEN [rd |-> rd, kind |-> "panic"]
       ELSE IF bytes_needed > 0
            THEN IF got < bytes_needed
                 THEN [rd |-> pulled, kind |-> "UnexpectedEof"]
                 ELSE [rd |-> MergeBytes(pulled, SubSeq(src, rd.inner + 1, rd.inner + got)),
                       kind |-> "Ok"]
            ELSE [rd |-> rd, kind |-> "Ok"]

\* mutant of get_from_bits_buffer: the bits handed out are not shifted out of the
\* register
get_from_bits_buffer_unshifted(rd, n, take) ==
    LET bit_value == IF rd.byte_order = "BigEndian"
                     THEN Shr(rd.bits_buffer, 64 - n)
                     ELSE rd.bits_buffer \cap LowMask(n)
        underflow == UsizeLt(rd.bits_in_buffer, n)
    IN IF ~take THEN [rd |-> rd, res |-> Ok(bit_value)]
       ELSE IF underflow /\ overflow_checks THEN [rd |-> rd, res |-> Panic]
            ELSE [rd |-> [rd EXCEPT !.bits_in_buffer = @ - n], res |-> Ok(bit_value)]

\* extract n bits from the oldest edge of the register, consuming them when take
get_from_bits_buffer(rd, n, take) ==
    LET bit_value == IF rd.byte_order = "BigEndian"
                     THEN Shr(rd.bits_buffer, 64 - n)
                     ELSE rd.bits_buffer \cap LowMask(n)
        shifted == IF n = 64 THEN {}
                   ELSE IF rd.byte_order = "BigEndian"
                        THEN Shl(rd.bits_buffer, n)
                        ELSE Shr(rd.bits_buffer, n)
        underflow == UsizeLt(rd.bits_in_buffer, n)
    IN IF ~take THEN [rd |-> rd, res |-> Ok(bit_value)]
       ELSE IF underflow /\ overflow_checks
            THEN [rd |-> [rd EXCEPT !.bits_buffer = shifted], res |-> Panic]
            ELSE [rd |-> [rd EXCEPT !.bits_buffer = shifted,
                                    !.bits_in_buffer = @ - n],
                  res |-> Ok(bit_value)]

\* BitReader::read_bits (PeekableBitReader::read_bits delegates to it)
read_bits(rd, n) ==
    IF n = 0 \/ n > 64 THEN [rd |-> rd, res |-> Err("InvalidBitCount")]
    ELSE LET f == put_into_bits_buffer(rd, n)
         IN IF f.kind = "panic" THEN [rd |-> f.rd, res |-> Panic]
            ELSE IF f.kind # "Ok" THEN [rd |-> f.rd, res |-> Err(f.kind)]
            ELSE get_from_bits_buffer(f.rd, n, TRUE)

\* mutant of is_byte_aligned: alignment to half a byte
is_nibble_aligned(rd) == rd.bits_in_buffer % 4 = 0

\* BitReader::is_byte_aligned
is_byte_aligned(rd) == rd.bits_in_buffer % 8 = 0

\* the value a query returns
OkBool(b) == [kind |-> "Ok", val |-> {}, bytes |-> <<>>, flag |-> b]

\* mutant of DrainBuffered: at most one buffered byte is handed over
DrainOneBuffered(rd, len, out) ==
    IF UsizeGe(rd.bits_in_buffer, 8) /\ Len(out) < len
    THEN LET g == get_from_bits_buffer(rd, 8, TRUE)
         IN [rd |-> g.rd, out |-> Append(out, U64ToByte(g.res.val))]
    ELSE [rd |-> rd, out |-> out]

RECURSIVE DrainBuffered(_, _, _)
\* the while loop of BitReader::read: move whole buffered bytes into buf
DrainBuffered(rd, len, out) ==
    IF UsizeGe(rd.bits_in_buffer, 8) /\ Len(out) < len
    THEN LET g == get_from_bits_buffer(rd, 8, TRUE)
         IN DrainBuffered(g.rd, len, Append(out, U64ToByte(g.res.val)))
    ELSE [rd |-> rd, out |-> out]

\* mutant of read: the alignment of a residue is not checked
read_unchecked(rd, len) ==
    LET direct == Min(len, Len(src) - rd.inner)
    IN [rd |-> [rd EXCEPT !.inner = @ + direct],
        res |-> OkBytes(SubSeq(src, rd.inner + 1, rd.inner + direct))]

\* impl Read for BitReader: read(buf) with buf.len() = len
read(rd, len) ==
    LET direct == Min(len, Len(src) - rd.inner)
        d == DrainBuffered(rd, len, <<>>)
        more == Min(len - Len(d.out), Len(src) - d.rd.inner)
    IN IF rd.bits_in_buffer = 0
       THEN [rd |-> [rd EXCEPT !.inner = @ + direct],
             res |-> OkBytes(SubSeq(src, rd.inner + 1, rd.inner + direct))]
       ELSE IF rd.bits_in_buffer % 8 = 0
            THEN [rd |-> [d.rd EXCEPT !.inner = @ + more],
                  res |-> OkBytes(d.out \o SubSeq(src, d.rd.inner + 1, d.rd.inner + more))]
            ELSE [rd |-> rd, res |-> Err("UnalignedAccess")]

\* mutant of peek_bits: the width is validated after the fill
peek_bits_fill_first(rd, n) ==
    LET f == put_into_bits_buffer(rd, n)
    IN IF n = 0 \/ n > 64 THEN [rd |-> f.rd, res |-> Err("InvalidBitCount")]
       ELSE IF f.kind = "panic" THEN [rd |-> f.rd, res |-> Panic]
       ELSE IF f.kind # "Ok" THEN [rd |-> f.rd, res |-> Err(f.kind)]
       ELSE get_from_bits_buffer(f.rd, n, FALSE)

\* PeekableBitReader::peek_bits
peek_bits(rd, n) ==
    IF n = 0 \/ n > 64 THEN [rd |-> rd, res |-> Err("InvalidBitCount")]
    ELSE LET f == put_into_bits_buffer(rd, n)
         IN IF f.kind = "panic" THEN [rd |-> f.rd, res |-> Panic]
            ELSE IF f.kind # "Ok" THEN [rd |-> f.rd, res |-> Err(f.kind)]
            ELSE get_from_bits_buffer(f.rd, n, FALSE)

\* the value BulkBitReader::read_bits returns: the chunk values in order
OkChunks(c) == [kind |-> "Ok", val |-> {}, bytes |-> <<>>, chunks |-> c]

RECURSIVE BulkRounds(_, _, _)
\* the while loop of BulkBitReader::read_bits: one read_bits of the inner BitReader per
\* chunk of at most 64 bits; the first failure is returned
BulkRounds(rd, remaining, chunks) ==
    IF remaining = 0 THEN [rd |-> rd, res |-> OkChunks(chunks)]
    ELSE LET take == Min(remaining, 64)
             r == read_bits(rd, take)
         IN IF r.res.kind # "Ok" THEN r
            ELSE BulkRounds(r.rd, remaining - take, Append(chunks, r.res.val))

\* BulkBitReader::read_bits, rd being the inner BitReader
bulk_read_bits(rd, n) ==
    IF n = 0 THEN [rd |-> rd, res |-> Err("InvalidBitCount")]
    ELSE BulkRounds(rd, n, <<>>)

-----------------------------------------------------------------------------
(* FastBitReaderBig / FastBitReaderLittle *)

\* FastBitReaderBig::new / FastBitReaderLittle::new
NewFast(order) == [byte_order |-> order, raw |-> 0, buffer |-> {}, bits_available |-> 0]

RECURSIVE AssembleBig(_)
\* val = (val << 8) | scratch[i], over the burst
AssembleBig(bytes) ==
    IF bytes = <<>> THEN {}
    ELSE Shl(AssembleBig(SubSeq(bytes, 1, Len(bytes) - 1)), 8)
         \cup ByteToU64(bytes[Len(bytes)])

\* val |= scratch[i] << (i * 8), over the burst
AssembleLittle(bytes) ==
    UNION { Shl(ByteToU64(bytes[i]), (i - 1) * 8) : i \in 1..Len(bytes) }

RECURSIVE FastFill(_, _)
\* the while loop of read_bits_fast: burst reads until bits_available >= n
FastFill(fr, n) ==
    IF fr.bits_available >= n THEN [fr |-> fr, kind |-> "Ok"]
    ELSE LET remaining_bits == n - fr.bits_available
             max_bytes == (64 - fr.bits_available) \div 8
             capped == Min((remaining_bits + 7) \div 8, max_bytes)
             needed_bytes == IF capped < 1 THEN 1 ELSE capped
             burst == SubSeq(src, fr.raw + 1, fr.raw + needed_bytes)
             new_bits == needed_bytes * 8
             shift == 64 - fr.bits_available - new_bits
             val == IF fr.byte_order = "BigEndian" THEN AssembleBig(burst)
                    ELSE AssembleLittle(burst)
             merged == IF fr.byte_order = "BigEndian"
                       THEN WrappingShl(val, shift)
                       ELSE WrappingShl(val, fr.bits_available)
         IN IF Len(src) - fr.raw < needed_bytes THEN [fr |-> fr, kind |-> "Eof"]
            ELSE IF fr.byte_order = "BigEndian" /\ shift < 0 /\ overflow_checks
                 THEN [fr |-> [fr EXCEPT !.raw = @ + needed_bytes], kind |-> "panic"]
                 ELSE FastFill([fr EXCEPT !.raw = @ + needed_bytes,
                                          !.buffer = @ \cup merged,
                                          !.bits_available = @ + new_bits], n)

RECURSIVE BurstsFit(_, _)
\* the fill loop of read_bits_fast, followed for its arithmetic only: every burst that
\* read_exact delivers has room in the register (bits_available + new_bits <= 64)
BurstsFit(fr, n) ==
    IF fr.bits_available >= n THEN TRUE
    ELSE LET remaining_bits == n - fr.bits_available
             max_bytes == (64 - fr.bits_available) \div 8
             capped == Min((remaining_bits + 7) \div 8, max_bytes)
             needed_bytes == IF capped < 1 THEN 1 ELSE capped
             new_bits == needed_bytes * 8
         IN IF Len(src) - fr.raw < needed_bytes THEN TRUE
            ELSE /\ fr.bits_available + new_bits <= 64
                 /\ BurstsFit([fr EXCEPT !.raw = @ + needed_bytes,
                                         !.bits_available = @ + new_bits], n)

\* mutant of read_bits_fast: only widths above 64 are rejected
read_bits_fast_zero_accepted(fr, n) ==
    IF n > 64 THEN [fr |-> fr, res |-> Err("InvalidBitCount")]
    ELSE LET f == FastFill(fr, n)
             result == IF fr.byte_order = "BigEndian"
                       THEN Shr(f.fr.buffer, 64 - n)
                       ELSE f.fr.buffer \cap LowMask(n)
             rest == IF n = 64 THEN {}
                     ELSE IF fr.byte_order = "BigEndian" THEN Shl(f.fr.buffer, n)
                          ELSE Shr(f.fr.buffer, n)
         IN IF f.kind = "panic" THEN [fr |-> f.fr, res |-> Panic]
            ELSE IF f.kind = "Eof" THEN [fr |-> f.fr, res |-> Err("Eof")]
            ELSE [fr |-> [f.fr EXCEPT !.buffer = rest, !.bits_available = @ - n],
                  res |-> Ok(result)]

\* read_bits_fast of either variant; a failed read_exact leaves the source position
\* unspecified (kind "Eof": the caller of this operator chooses it)
read_bits_fast(fr, n) ==
    IF n = 0 \/ n > 64 THEN [fr |-> fr, res |-> Err("InvalidBitCount")]
    ELSE LET f == FastFill(fr, n)
             result == IF fr.byte_order = "BigEndian"
                       THEN Shr(f.fr.buffer, 64 - n)
                       ELSE f.fr.buffer \cap LowMask(n)
             rest == IF n = 64 THEN {}
                     ELSE IF fr.byte_order = "BigEndian" THEN Shl(f.fr.buffer, n)
                          ELSE Shr(f.fr.buffer, n)
         IN IF f.kind = "panic" THEN [fr |-> f.fr, res |-> Panic]
            ELSE IF f.kind = "Eof" THEN [fr |-> f.fr, res |-> Err("Eof")]
            ELSE [fr |-> [f.fr EXCEPT !.buffer = rest, !.bits_available = @ - n],
                  res |-> Ok(result)]

-----------------------------------------------------------------------------
(* BitWriter; the sink is an in-memory byte vector, which accepts every byte *)

\* BitWriter::with_byte_order
NewWriter(order) ==
    [byte_order |-> order, inner |-> <<>>, bits_buffer |-> {}, bits_in_buffer |-> 0]

\* mutant of OldestByte: the low byte is taken whatever the order
OldestByteIgnoringOrder(wr) == U64ToByte(wr.bits_buffer)

\* the byte at the oldest edge of the register
OldestByte(wr) ==
    IF wr.byte_order = "BigEndian" THEN U64ToByte(Shr(wr.bits_buffer, 56))
    ELSE U64ToByte(wr.bits_buffer)

RECURSIVE write_aligned_bytes_above_8(_)
\* mutant of write_aligned_bytes_to_inner: a byte is pushed only while more than 8
\* bits are buffered
write_aligned_bytes_above_8(wr) ==
    IF wr.bits_in_buffer > 8
    THEN write_aligned_bytes_above_8(
             [wr EXCEPT !.inner = Append(@, OldestByte(wr)),
                        !.bits_buffer = IF wr.byte_order = "BigEndian"
                                        THEN Shl(@, 8) ELSE Shr(@, 8),
                        !.bits_in_buffer = @ - 8])
    ELSE wr

RECURSIVE write_aligned_bytes_to_inner(_)
\* drain: push whole bytes to the sink while bits_in_buffer >= 8
write_aligned_bytes_to_inner(wr) ==
    IF wr.bits_in_buffer >= 8
    THEN write_aligned_bytes_to_inner(
             [wr EXCEPT !.inner = Append(@, OldestByte(wr)),
                        !.bits_buffer = IF wr.byte_order = "BigEndian"
                                        THEN Shl(@, 8) ELSE Shr(@, 8),
                        !.bits_in_buffer = @ - 8])
    ELSE wr

\* mutant of write_partial_byte_to_inner: the residue is right-aligned in its byte
write_partial_byte_right_aligned(wr) ==
    IF wr.bits_in_buffer > 0
    THEN [wr EXCEPT !.inner = Append(@, IF wr.byte_order = "BigEndian"
                                        THEN U64ToByte(Shr(wr.bits_buffer,
                                                           64 - wr.bits_in_buffer))
                                        ELSE U64ToByte(wr.bits_buffer)),
                    !.bits_buffer = {},
                    !.bits_in_buffer = 0]
    ELSE wr

\* push the sub-byte residue to the sink as one byte and clear the register
write_partial_byte_to_inner(wr) ==
    IF wr.bits_in_buffer > 0
    THEN [wr EXCEPT !.inner = Append(@, OldestByte(wr)),
                    !.bits_buffer = {},
                    !.bits_in_buffer = 0]
    ELSE wr

\* impl Write for BitWriter: flush
flush(wr) == write_partial_byte_to_inner(wr)

RECURSIVE InsertRounds(_, _, _)
\* the while loop of write_bits: insert what fits, drain, insert the rest
InsertRounds(wr, val, remaining) ==
    IF remaining = 0 THEN wr
    ELSE LET available == 64 - wr.bits_in_buffer
             to_insert == Min(remaining, available)
             insert_at_next_round == remaining - to_insert
             to_insert_val == Shr(val, insert_at_next_round)
             placed == IF wr.byte_order = "BigEndian"
                       THEN Shl(to_insert_val, available - to_insert)
                       ELSE Shl(to_insert_val, wr.bits_in_buffer)
             inserted == [wr EXCEPT !.bits_buffer = @ \cup placed,
                                    !.bits_in_buffer = @ + to_insert]
             rest == IF insert_at_next_round > 0
                     THEN val \cap LowMask(insert_at_next_round) ELSE val
             drained == IF inserted.bits_in_buffer >= 8 \/ insert_at_next_round = 0
                        THEN write_aligned_bytes_to_inner(inserted) ELSE inserted
         IN InsertRounds(drained, rest, insert_at_next_round)

\* BitWriter::write_bits
write_bits(wr, value, n) ==
    IF n = 0 \/ n > 64 THEN [wr |-> wr, res |-> Err("InvalidBitCount")]
    ELSE [wr |-> InsertRounds(wr, value \cap LowMask(n), n), res |-> Ok({})]

\* the value write(buf) returns: the number of bytes it took
OkCount(k) == [kind |-> "Ok", val |-> {}, bytes |-> <<>>, count |-> k]

RECURSIVE FoldBytes(_, _, _)
\* the for loop of BitWriter::write: OR each byte into the register next to the
\* remaining_bits bits already counted (the occupancy is updated after the loop)
FoldBytes(wr, bytes, remaining_bits) ==
    IF bytes = <<>> THEN wr
    ELSE LET placed == IF wr.byte_order = "BigEndian"
                       THEN Shl(ByteToU64(Head(bytes)), 56 - remaining_bits)
                       ELSE Shl(ByteToU64(Head(bytes)), remaining_bits)
         IN FoldBytes([wr EXCEPT !.bits_buffer = @ \cup placed], Tail(bytes),
                      remaining_bits + 8)

\* impl Write for BitWriter: write(buf)
write(wr, buf) ==
    LET d == write_aligned_bytes_to_inner(wr)
        remaining_bits == d.bits_in_buffer
        free_space_in_bits_buffer == 64 - remaining_bits
        bytes_to_process == Min(free_space_in_bits_buffer \div 8, Len(buf))
        folded == [FoldBytes(d, SubSeq(buf, 1, bytes_to_process), remaining_bits)
                       EXCEPT !.bits_in_buffer = @ + 8 * bytes_to_process]
        drained == write_aligned_bytes_to_inner(folded)
    IN IF d.bits_in_buffer = 0
       THEN [wr |-> [d EXCEPT !.inner = @ \o buf], res |-> OkCount(Len(buf))]
       ELSE [wr |-> [drained EXCEPT
                        !.inner = @ \o SubSeq(buf, bytes_to_process + 1, Len(buf))],
             res |-> OkCount(Len(buf))]

-----------------------------------------------------------------------------
(* BitWriter over a sink that may fail: within one call the sink takes budget  *)
(* more bytes and answers every later write with an error.  A call that fails  *)
(* returns at its `?`, keeping what it did to the writer before that point.    *)

\* x << k as the build computes it for k = 64: a debug build panics, a release build
\* shifts by k mod 64
ShlOverflows(k) == k >= 64
ShrOverflows(k) == k >= 64

RECURSIVE try_write_aligned_bytes_above_8(_, _)
\* mutant of try_write_aligned_bytes_to_inner: a byte is pushed only while more than
\* 8 bits are buffered
try_write_aligned_bytes_above_8(wr, budget) ==
    IF wr.bits_in_buffer > 8
    THEN IF budget = 0 THEN [wr |-> wr, kind |-> "SinkError", budget |-> 0]
         ELSE try_write_aligned_bytes_above_8(
                  [wr EXCEPT !.inner = Append(@, OldestByte(wr)),
                             !.bits_buffer = IF wr.byte_order = "BigEndian"
                                             THEN Shl(@, 8) ELSE Shr(@, 8),
                             !.bits_in_buffer = @ - 8], budget - 1)
    ELSE [wr |-> wr, kind |-> "Ok", budget |-> budget]

RECURSIVE try_write_aligned_bytes_to_inner(_, _)
\* drain: push whole bytes to the sink while bits_in_buffer >= 8; a byte the sink
\* refuses stays in the register
try_write_aligned_bytes_to_inner(wr, budget) ==
    IF wr.bits_in_buffer >= 8
    THEN IF budget = 0 THEN [wr |-> wr, kind |-> "SinkError", budget |-> 0]
         ELSE try_write_aligned_bytes_to_inner(
                  [wr EXCEPT !.inner = Append(@, OldestByte(wr)),
                             !.bits_buffer = IF wr.byte_order = "BigEndian"
                                             THEN Shl(@, 8) ELSE Shr(@, 8),
                             !.bits_in_buffer = @ - 8], budget - 1)
    ELSE [wr |-> wr, kind |-> "Ok", budget |-> budget]

\* push the residue to the sink as one byte and clear the register
try_write_partial_byte_to_inner(wr, budget) ==
    IF wr.bits_in_buffer > 0
    THEN IF budget = 0 THEN [wr |-> wr, kind |-> "SinkError", budget |-> 0]
         ELSE [wr |-> [wr EXCEPT !.inner = Append(@, OldestByte(wr)),
                                 !.bits_buffer = {},
                                 !.bits_in_buffer = 0],
               kind |-> "Ok", budget |-> budget - 1]
    ELSE [wr |-> wr, kind |-> "Ok", budget |-> budget]

\* mutant of try_flush: the register is not cleared
try_flush_keeping_register(wr, budget) ==
    LET f == try_write_partial_byte_to_inner(wr, budget)
    IN [wr |-> [f.wr EXCEPT !.bits_buffer = wr.bits_buffer],
        res |-> IF f.kind = "Ok" THEN Ok({}) ELSE Err(f.kind)]

\* impl Write for BitWriter: flush (the sink's own flush succeeds)
try_flush(wr, budget) ==
    LET f == try_write_partial_byte_to_inner(wr, budget)
    IN [wr |-> f.wr, res |-> IF f.kind = "Ok" THEN Ok({}) ELSE Err(f.kind)]

RECURSIVE TryInsertRounds(_, _, _, _)
\* the while loop of write_bits, from any occupancy in 0..64
TryInsertRounds(wr, val, remaining, budget) ==
    IF remaining = 0 THEN [wr |-> wr, kind |-> "Ok"]
    ELSE LET available == 64 - wr.bits_in_buffer
             to_insert == Min(remaining, available)
             insert_at_next_round == remaining - to_insert
             to_insert_val == Shr(val, insert_at_next_round % 64)
             shift == IF wr.byte_order = "BigEndian" THEN available - to_insert
                      ELSE wr.bits_in_buffer
             overflows == \/ ShrOverflows(insert_at_next_round)
                          \/ ShlOverflows(shift)
             inserted == [wr EXCEPT !.bits_buffer = @ \cup Shl(to_insert_val, shift % 64),
                                    !.bits_in_buffer = @ + to_insert]
             \* (1u64 << insert_at_next_round) - 1, the shift taken mod 64 on overflow
             rest == IF insert_at_next_round > 0
                     THEN val \cap LowMask(insert_at_next_round % 64) ELSE val
             d == IF inserted.bits_in_buffer >= 8 \/ insert_at_next_round = 0
                  THEN try_write_aligned_bytes_to_inner(inserted, budget)
                  ELSE [wr |-> inserted, kind |-> "Ok", budget |-> budget]
         IN IF overflows /\ overflow_checks THEN [wr |-> wr, kind |-> "panic"]
            ELSE IF d.kind # "Ok" THEN [wr |-> d.wr, kind |-> d.kind]
            ELSE TryInsertRounds(d.wr, rest, insert_at_next_round, d.budget)

\* BitWriter::write_bits
try_write_bits(wr, value, n, budget) ==
    IF n = 0 \/ n > 64 THEN [wr |-> wr, res |-> Err("InvalidBitCount")]
    ELSE LET r == TryInsertRounds(wr, value \cap LowMask(n), n, budget)
         IN [wr |-> r.wr, res |-> IF r.kind = "Ok" THEN Ok({})
                                  ELSE IF r.kind = "panic" THEN Panic ELSE Err(r.kind)]

\* impl Write for BitWriter: write(buf).  The sink's write takes as many bytes as it
\* still accepts (an error if it accepts none of a nonempty buf); its write_all takes
\* them and fails if any byte is left.
try_write(wr, buf, budget) ==
    LET d == try_write_aligned_bytes_to_inner(wr, budget)
        taken == Min(Len(buf), d.budget)
        remaining_bits == d.wr.bits_in_buffer
        free_space_in_bits_buffer == 64 - remaining_bits
        bytes_to_process == Min(free_space_in_bits_buffer \div 8, Len(buf))
        folded == [FoldBytes(d.wr, SubSeq(buf, 1, bytes_to_process), remaining_bits)
                       EXCEPT !.bits_in_buffer = @ + 8 * bytes_to_process]
        e == try_write_aligned_bytes_to_inner(folded, d.budget)
        left == Len(buf) - bytes_to_process
        direct == Min(left, e.budget)
        after == [e.wr EXCEPT !.inner = @ \o SubSeq(buf, bytes_to_process + 1,
                                                    bytes_to_process + direct)]
    IN IF d.kind # "Ok" THEN [wr |-> d.wr, res |-> Err(d.kind)]
       ELSE IF d.wr.bits_in_buffer = 0
            THEN IF taken = 0 /\ Len(buf) > 0 THEN [wr |-> d.wr, res |-> Err("SinkError")]
                 ELSE [wr |-> [d.wr EXCEPT !.inner = @ \o SubSeq(buf, 1, taken)],
                       res |-> OkCount(taken)]
            ELSE IF e.kind # "Ok" THEN [wr |-> e.wr, res |-> Err(e.kind)]
            ELSE IF direct < left THEN [wr |-> after, res |-> Err("SinkError")]
            ELSE [wr |-> after, res |-> OkCount(Len(buf))]

-----------------------------------------------------------------------------
(* The ideal bit stream of a source, by position; independent of the register *)

\* stream bit q (0-based), most significant bit of each byte first
MsbStreamBit(s, q) == (s[(q \div 8) + 1] \div Pow2(7 - (q % 8))) % 2

\* stream bit q (0-based), least significant bit of each byte first
LsbStreamBit(s, q) == (s[(q \div 8) + 1] \div Pow2(q % 8)) % 2

\* the u64 whose n bits are stream bits [start, start + n), first bit most significant
MsbValue(s, start, n) == { j \in 0..(n - 1) : MsbStreamBit(s, start + n - 1 - j) = 1 }

\* the u64 whose bit j is stream bit start + j
LsbValue(s, start, n) == { j \in 0..(n - 1) : LsbStreamBit(s, start + j) = 1 }

-----------------------------------------------------------------------------
(* State shared by the specifications *)

NoCall == [op |-> "new", n |-> 0, res |-> Ok({})]

\* flushed: a flush came before the call
NoWrite == [op |-> "new", n |-> 0, res |-> Ok({}), flushed |-> FALSE]

IdleWriter == [byte_order |-> "BigEndian", inner |-> <<>>, bits_buffer |-> {},
               bits_in_buffer |-> 0]

IdleFast == [byte_order |-> "BigEndian", raw |-> 0, buffer |-> {}, bits_available |-> 0]

Unclean == [start |-> 0, clean |-> FALSE]

\* a panic ends the program: nothing is called afterwards
\* (a wrapped counter keeps falling with every call: it is followed down to -MaxWrap)
Alive == /\ ret.res.kind # "panic" /\ sret.kind # "panic" /\ fret.kind # "panic"
         /\ wret.res.kind # "panic"
         /\ reader.bits_in_buffer >= -MaxWrap

\* ghost: the call starts where the earlier calls' widths end; it is clean while every
\* call so far is a read_bits of a valid width that the stream can still satisfy
NextHist(n) ==
    LET start == hist.start + ret.n
        clean == hist.clean /\ ret.op \in {"new", "read_bits"}
                 /\ n \in 1..64 /\ start + n <= 8 * Len(src)
    IN IF clean THEN [start |-> start, clean |-> TRUE] ELSE Unclean

-----------------------------------------------------------------------------
(* SpecReader: a BitReader driven through read_bits and the byte passthrough *)

InitReader ==
    /\ overflow_checks \in BOOLEAN
    /\ src \in Streams
    /\ \E order \in ByteOrders :
          /\ reader = NewReader(order)
          /\ shadow = NewReader(order)
    /\ ret = NoCall
    /\ hist = [start |-> 0, clean |-> TRUE]
    /\ sret = Ok({})
    /\ fast = IdleFast
    /\ fret = Ok({})
    /\ writer = IdleWriter
    /\ wret = NoWrite
    /\ log = <<>>
    /\ readback = 0

ReadBits(n) ==
    /\ Alive
    /\ LET r == read_bits(reader, n)
       IN /\ reader' = r.rd
          /\ ret' = [op |-> "read_bits", n |-> n, res |-> r.res]
    /\ hist' = NextHist(n)
    /\ UNCHANGED <<overflow_checks, src, shadowVars, fastVars, writerVars>>

Read(len) ==
    /\ Alive
    /\ LET r == read(reader, len)
       IN /\ reader' = r.rd
          /\ ret' = [op |-> "read", n |-> len, res |-> r.res]
    /\ hist' = Unclean
    /\ UNCHANGED <<overflow_checks, src, shadowVars, fastVars, writerVars>>

NextReader ==
    \/ \E n \in Widths : ReadBits(n)
    \/ \E len \in 0..MaxBuf : Read(len)

SpecReader == InitReader /\ [][NextReader]_vars

C1_MsbFirstRead ==
    (reader.byte_order = "BigEndian" /\ ret.op = "read_bits" /\ hist.clean)
        => ret.res = Ok(MsbValue(src, hist.start, ret.n))

\* C2: under LittleEndian, while every call so far is a read_bits of a width in 1..64
\* and the widths sum to at most 8 * len(stream), the call returns Ok with a value whose
\* bit j is stream bit start + j (least significant bit of each byte first), zero above n.
C2_LsbFirstRead ==
    (reader.byte_order = "LittleEndian" /\ ret.op = "read_bits" /\ hist.clean)
        => ret.res = Ok(LsbValue(src, hist.start, ret.n))

\* C15: for n in 1..64, read_bits(n) on a reader whose occupancy has not wrapped
\* returns UnexpectedEof exactly when occupancy + 8 * (source bytes not yet pulled) is
\* smaller than n.
C15_EofExactlyOnShortfall ==
    [][ \A n \in Widths \cap (1..64) :
          (ReadBits(n) /\ reader.bits_in_buffer >= 0)
              => ((ret'.res.kind = "UnexpectedEof")
                     <=> (reader.bits_in_buffer + 8 * (Len(src) - reader.inner) < n)) ]_vars

\* C16: when read_bits fails with UnexpectedEof after the source delivered k >= 1
\* bytes, the occupancy has grown by 8k (the k bytes are in the accumulator).
C16_NoLossOnEof ==
    [][ \A n \in Widths :
          (ReadBits(n) /\ ret'.res.kind = "UnexpectedEof" /\ reader'.inner > reader.inner)
              => reader'.bits_in_buffer
                     = reader.bits_in_buffer + 8 * (reader'.inner - reader.inner) ]_vars

\* C25: from every occupancy the reader rests at, put_into_bits_buffer(n) with n in
\* 1..64 returns Ok only with occupancy >= n.
C25_FillPostcondition ==
    \A n \in Widths \cap (1..64) :
        LET filled == put_into_bits_buffer(reader, n)
        IN (Alive /\ filled.kind = "Ok") => UsizeGe(filled.rd.bits_in_buffer, n)

-----------------------------------------------------------------------------
(* SpecPeek: a PeekableBitReader, and beside it a BitReader on the same source *)
(* that receives the read_bits calls but none of the peek_bits calls           *)

InitPeek ==
    /\ overflow_checks \in BOOLEAN
    /\ src \in FewStreams
    /\ \E order \in ByteOrders :
          /\ reader = NewReader(order)
          /\ shadow = NewReader(order)
    /\ ret = NoCall
    /\ hist = [start |-> 0, clean |-> TRUE]
    /\ sret = Ok({})
    /\ fast = IdleFast
    /\ fret = Ok({})
    /\ writer = IdleWriter
    /\ wret = NoWrite
    /\ log = <<>>
    /\ readback = 0

PReadBits(n) ==
    /\ Alive
    /\ LET r == read_bits(reader, n)
           q == read_bits(shadow, n)
       IN /\ reader' = r.rd
          /\ ret' = [op |-> "read_bits", n |-> n, res |-> r.res]
          /\ shadow' = q.rd
          /\ sret' = q.res
    /\ hist' = Unclean
    /\ UNCHANGED <<overflow_checks, src, fastVars, writerVars>>

PeekBits(n) ==
    /\ Alive
    /\ LET r == peek_bits(reader, n)
       IN /\ reader' = r.rd
          /\ ret' = [op |-> "peek_bits", n |-> n, res |-> r.res]
    /\ hist' = Unclean
    /\ UNCHANGED <<overflow_checks, src, shadowVars, fastVars, writerVars>>

NextPeek ==
    \/ \E n \in FewWidths : PReadBits(n)
    \/ \E n \in FewWidths : PeekBits(n)

SpecPeek == InitPeek /\ [][NextPeek]_vars

\* C5: whenever peek_bits(n) has just returned Ok(v), a read_bits(n) issued next also
\* returns Ok(v).
C5_PeekThenReadAgree ==
    [][ \A n \in FewWidths :
          (ret.op = "peek_bits" /\ ret.n = n /\ ret.res.kind = "Ok" /\ PReadBits(n))
              => ret'.res = ret.res ]_vars

\* C6: every read_bits of the peeked reader returns what the same read_bits returns on
\* the reader that was never peeked (same value, same success or failure), and a
\* peek_bits leaves occupancy mod 8 as it was.
C6_PeekUnobservable ==
    [][ /\ ret'.op = "read_bits" => ret'.res = sret'
        /\ (\E n \in FewWidths : PeekBits(n))
              => reader'.bits_in_buffer % 8 = reader.bits_in_buffer % 8 ]_vars

-----------------------------------------------------------------------------
(* SpecFast: a BitReader and the fast reader of the same order, on the same   *)
(* source, given the same widths                                              *)

InitFast ==
    /\ overflow_checks \in BOOLEAN
    /\ src \in Streams
    /\ \E order \in ByteOrders :
          /\ reader = NewReader(order)
          /\ shadow = NewReader(order)
          /\ fast = NewFast(order)
    /\ ret = NoCall
    /\ hist = [start |-> 0, clean |-> TRUE]
    /\ sret = Ok({})
    /\ fret = Ok({})
    /\ writer = IdleWriter
    /\ wret = NoWrite
    /\ log = <<>>
    /\ readback = 0

FReadBits(n) ==
    /\ Alive
    /\ LET r == read_bits(reader, n)
           f == read_bits_fast(fast, n)
       IN /\ reader' = r.rd
          /\ ret' = [op |-> "read_bits", n |-> n, res |-> r.res]
          /\ fret' = f.res
          /\ IF f.res.kind = "Eof"
             THEN \E pos \in {f.fr.raw, Len(src)} : fast' = [f.fr EXCEPT !.raw = pos]
             ELSE fast' = f.fr
    /\ hist' = NextHist(n)
    /\ UNCHANGED <<overflow_checks, src, shadowVars, writerVars>>

NextFast == \E n \in FewWidths : FReadBits(n)

SpecFast == InitFast /\ [][NextFast]_vars

\* C4: at every call the fast reader of an order succeeds exactly when the BitReader of
\* that order succeeds on the same stream and widths, and then returns the same value.
C4_FastEqualsGeneral ==
    ret.op = "read_bits" =>
        /\ (fret.kind = "Ok") <=> (ret.res.kind = "Ok")
        /\ fret.kind = "Ok" => fret.val = ret.res.val

\* C32: on a fresh BitReader that takes only read_bits calls,
\* 8 * bytes pulled = bits returned + occupancy in every state, and after every
\* successful read_bits the occupancy is at most 7.  The equation holds at
\* construction (0 = 0 + 0), so it holds in every state exactly if every call adds the
\* same to both sides: 8 per byte it pulls on the left, the n bits it returns (none
\* when it fails) and the change of the occupancy on the right.
C32_ReaderBitConservation ==
    [][ ret'.op = "read_bits"
          => /\ 8 * (reader'.inner - reader.inner)
                    = (IF ret'.res.kind = "Ok" THEN ret'.n ELSE 0)
                      + (reader'.bits_in_buffer - reader.bits_in_buffer)
             /\ ret'.res.kind = "Ok" => reader'.bits_in_buffer \in 0..7 ]_vars

-----------------------------------------------------------------------------
(* The ideal packing of a sequence of (value, n) pairs, bit by bit *)

\* the n low bits of value in the order they enter the stream
BitsOf(value, n, order) ==
    [q \in 1..n |-> IF order = "BigEndian"
                    THEN IF (n - q) \in value THEN 1 ELSE 0
                    ELSE IF (q - 1) \in value THEN 1 ELSE 0]

RECURSIVE IdealBits(_, _)
IdealBits(lg, order) ==
    IF lg = <<>> THEN <<>>
    ELSE BitsOf(Head(lg).value, Head(lg).n, order) \o IdealBits(Tail(lg), order)

\* the bytes holding bits, eight per byte, zero bits after the last one
Pack(bits, order) ==
    [k \in 1..((Len(bits) + 7) \div 8) |->
        SumPow2({ IF order = "BigEndian" THEN 7 - m ELSE m :
                  m \in { i \in 0..7 : 8 * (k - 1) + i + 1 <= Len(bits)
                                       /\ bits[8 * (k - 1) + i + 1] = 1 } })]

-----------------------------------------------------------------------------
(* SpecWriter: a BitWriter driven through write_bits and flush; after a flush *)
(* the sink may be handed to a BitReader of the same order that reads the     *)
(* widths of log back in order                                                *)

\* 0x0123456789ABCDEF
TestWord == AssembleBig(<<1, 35, 69, 103, 137, 171, 205, 239>>)

Values == {U64Max, TestWord}

InitWriter ==
    /\ overflow_checks \in BOOLEAN
    /\ src = <<>>
    /\ \E order \in ByteOrders :
          /\ writer = NewWriter(order)
          /\ reader = NewReader(order)
          /\ shadow = NewReader(order)
    /\ ret = NoCall
    /\ hist = Unclean
    /\ sret = Ok({})
    /\ fast = IdleFast
    /\ fret = Ok({})
    /\ wret = NoWrite
    /\ log = <<>>
    /\ readback = 0

\* the writer is in use until its sink is handed to a reader
Writing == Alive /\ ret.op = "new"

WriteBits(value, n) ==
    /\ Writing
    /\ Len(log) < MaxWrites
    /\ LET w == write_bits(writer, value, n)
       IN /\ writer' = w.wr
          /\ wret' = [op |-> "write_bits", n |-> n, res |-> w.res,
                      flushed |-> wret.flushed \/ wret.op = "flush"]
          /\ log' = IF w.res.kind = "Ok" THEN Append(log, [value |-> value, n |-> n])
                    ELSE log
    /\ UNCHANGED <<overflow_checks, src, reader, ret, hist, shadowVars, fastVars, readback>>

Flush ==
    /\ Writing
    /\ writer' = flush(writer)
    /\ wret' = [op |-> "flush", n |-> 0, res |-> Ok({}),
                flushed |-> wret.flushed \/ wret.op = "flush"]
    /\ UNCHANGED <<overflow_checks, src, reader, ret, hist, shadowVars, fastVars, log,
                   readback>>

\* BitReader::with_byte_order over the bytes the sink holds
BeginRead ==
    /\ Writing
    /\ wret.op = "flush"
    /\ src' = writer.inner
    /\ reader' = NewReader(writer.byte_order)
    /\ ret' = [op |-> "begin", n |-> 0, res |-> Ok({})]
    /\ UNCHANGED <<overflow_checks, hist, shadowVars, fastVars, writerVars>>

ReadBack ==
    /\ Alive
    /\ ret.op \in {"begin", "read_bits"}
    /\ readback < Len(log)
    /\ LET n == log[readback + 1].n
           r == read_bits(reader, n)
       IN /\ reader' = r.rd
          /\ ret' = [op |-> "read_bits", n |-> n, res |-> r.res]
    /\ readback' = readback + 1
    /\ UNCHANGED <<overflow_checks, src, hist, shadowVars, fastVars, writer, wret, log>>

NextWriter ==
    \/ \E value \in Values, n \in WriterWidths : WriteBits(value, n)
    \/ Flush
    \/ BeginRead
    \/ ReadBack

SpecWriter == InitWriter /\ [][NextWriter]_vars

\* C3: after write_bits for each pair, one flush, and a reader of the same order on the
\* sink, the i-th read_bits of the i-th width returns the i-th value masked to its
\* low n bits.
C3_RoundTrip ==
    (ret.op = "read_bits" /\ ~wret.flushed)
        => ret.res = Ok(log[readback].value \cap LowMask(log[readback].n))

\* C7: under BigEndian, after any write_bits calls and then the first flush, the sink
\* holds exactly ceil(T/8) bytes: the values' low n bits, most significant first, each
\* byte filled from its most significant bit, zero bits after the last one.
C7_MsbFirstPacking ==
    (writer.byte_order = "BigEndian" /\ wret.op = "flush" /\ ~wret.flushed)
        => writer.inner = Pack(IdealBits(log, "BigEndian"), "BigEndian")

C7_Witness ==
    /\ writer.byte_order = "BigEndian" /\ wret.op = "flush" /\ ~wret.flushed
    /\ Len(log) = 2 /\ log[1].n = 3 /\ log[2].n = 64
    /\ Len(writer.inner) = 9

\* C8: under LittleEndian, after any write_bits calls and then the first flush, bit m
\* of sink byte k is the (8k+m)-th bit written, each value giving its low n bits least
\* significant first (also when one call is split across the register), padding zero.
C8_LsbFirstPacking ==
    (writer.byte_order = "LittleEndian" /\ wret.op = "flush" /\ ~wret.flushed)
        => writer.inner = Pack(IdealBits(log, "LittleEndian"), "LittleEndian")

\* the byte a flush owes for a residue of occ bits held in register reg: the occ
\* buffered bits at the high-order end (BigEndian) or the low-order end
\* (LittleEndian), every other bit 0
PaddedByte(order, reg, occ) ==
    IF order = "BigEndian"
    THEN SumPow2({ 7 - q : q \in { i \in 0..(occ - 1) : (63 - i) \in reg } })
    ELSE SumPow2({ q \in 0..(occ - 1) : q \in reg })

\* C9: a flush with 0 < occupancy < 8 appends exactly one byte to the sink, holding the
\* buffered bits at the high-order end (BigEndian) or low-order end (LittleEndian) and
\* zeros elsewhere; a flush with occupancy 0 appends nothing.
C9_PartialByteFlush ==
    [][ Flush =>
          /\ (0 < writer.bits_in_buffer /\ writer.bits_in_buffer < 8)
                => writer'.inner =
                       Append(writer.inner,
                              PaddedByte(writer.byte_order, writer.bits_buffer,
                                         writer.bits_in_buffer))
          /\ writer.bits_in_buffer = 0 => writer'.inner = writer.inner ]_vars

C9_Witness ==
    /\ wret.op = "flush" /\ wret.flushed
    /\ writer.byte_order = "LittleEndian"
    /\ Len(log) = 2 /\ log[2].n = 3 /\ log[2].value = U64Max
    /\ writer.inner[Len(writer.inner)] = 7

-----------------------------------------------------------------------------
(* SpecPass: a BitWriter driven through write_bits, the byte passthrough write *)
(* and flush; log holds one entry per accepted call (for write, the width is   *)
(* that of the whole buffer)                                                   *)

\* the buffers handed to write: empty, one byte, as many bytes as fit in the register
\* next to a residue, and one byte more than that
PassBufs == StreamsOf({"ramp"}, {0, 1, 7, 8})

\* the widths offered to write_bits beside the passthrough
PassWidths == {0, 1, MaxNarrow, 8, 65}

InitPass ==
    /\ overflow_checks \in BOOLEAN
    /\ src = <<>>
    /\ \E order \in ByteOrders :
          /\ writer = NewWriter(order)
          /\ reader = NewReader(order)
          /\ shadow = NewReader(order)
    /\ ret = NoCall
    /\ hist = Unclean
    /\ sret = Ok({})
    /\ fast = IdleFast
    /\ fret = Ok({})
    /\ wret = NoWrite
    /\ log = <<>>
    /\ readback = 0

PWriteBits(value, n) ==
    /\ Len(log) < MaxPassCalls
    /\ LET w == write_bits(writer, value, n)
       IN /\ writer' = w.wr
          /\ wret' = [op |-> "write_bits", n |-> n, res |-> w.res,
                      flushed |-> wret.flushed \/ wret.op = "flush"]
          /\ log' = IF w.res.kind = "Ok" THEN Append(log, [value |-> value, n |-> n])
                    ELSE log
    /\ UNCHANGED <<overflow_checks, src, reader, ret, hist, shadowVars, fastVars, readback>>

PWrite(buf) ==
    /\ Len(log) < MaxPassCalls
    /\ LET w == write(writer, buf)
       IN /\ writer' = w.wr
          /\ wret' = [op |-> "write", n |-> Len(buf), res |-> w.res,
                      flushed |-> wret.flushed \/ wret.op = "flush"]
          /\ log' = IF w.res.kind = "Ok"
                    THEN Append(log, [value |-> {}, n |-> 8 * Len(buf)])
                    ELSE log
    /\ UNCHANGED <<overflow_checks, src, reader, ret, hist, shadowVars, fastVars, readback>>

PFlush ==
    /\ Len(log) < MaxPassCalls
    /\ writer' = flush(writer)
    /\ wret' = [op |-> "flush", n |-> 0, res |-> Ok({}),
                flushed |-> wret.flushed \/ wret.op = "flush"]
    /\ UNCHANGED <<overflow_checks, src, reader, ret, hist, shadowVars, fastVars, log,
                   readback>>

NextPass ==
    \/ \E n \in PassWidths : PWriteBits(TestWord, n)
    \/ \E buf \in PassBufs : PWrite(buf)
    \/ PFlush

SpecPass == InitPass /\ [][NextPass]_vars

RECURSIVE WriteBitsEach(_, _)
\* write_bits(b, 8) for each byte b of buf, in order
WriteBitsEach(wr, buf) ==
    IF buf = <<>> THEN wr
    ELSE WriteBitsEach(write_bits(wr, ByteToU64(Head(buf)), 8).wr, Tail(buf))

\* C11: for a writer holding a residue of 1..7 bits and every buf, write(buf) leaves
\* the sink and the accumulator (register and occupancy) as write_bits(b, 8) for each
\* byte b of buf in order leaves them.
C11_WriteAsWriteBits ==
    [][ \A buf \in PassBufs :
          (PWrite(buf) /\ writer.bits_in_buffer \in 1..7)
              => writer' = WriteBitsEach(writer, buf) ]_vars

\* C12: write(buf) returns UnalignedAccess exactly when the occupancy at the call is
\* above 0 and not a multiple of 8, and succeeds otherwise.
C12_WriteAlignment ==
    [][ \A buf \in PassBufs :
          PWrite(buf) =>
             /\ (wret'.res.kind = "UnalignedAccess")
                    <=> (writer.bits_in_buffer > 0 /\ writer.bits_in_buffer % 8 # 0)
             /\ (wret'.res.kind = "Ok")
                    <=> (writer.bits_in_buffer = 0 \/ writer.bits_in_buffer % 8 = 0) ]_vars

-----------------------------------------------------------------------------
(* SpecSink: a BitWriter over a sink that may fail.  Each call meets a sink    *)
(* that takes budget more bytes and refuses the rest; the writer is finally    *)
(* dropped.  log holds one entry per write_bits or write call of a valid       *)
(* width, whatever it returned; MaxWrites such calls are made.                 *)

\* a sink that does not fail during the call: it takes more bytes than any call writes
SinkWorks == 2 * MaxLen

\* the bytes the sink takes during one call: none, one, or all of them
SinkBudgets == {0, 1, SinkWorks}

\* the widths offered to write_bits over the failing sink
SinkWidths == {0, 1, MaxNarrow, 8, 64, 65}

\* the buffers handed to write over the failing sink
SinkBufs == StreamsOf({"ramp"}, {0, 1, 8})

InitSink ==
    /\ overflow_checks \in BOOLEAN
    /\ src = <<>>
    /\ \E order \in ByteOrders :
          /\ writer = NewWriter(order)
          /\ reader = NewReader(order)
          /\ shadow = NewReader(order)
    /\ ret = NoCall
    /\ hist = Unclean
    /\ sret = Ok({})
    /\ fast = IdleFast
    /\ fret = Ok({})
    /\ wret = NoWrite
    /\ log = <<>>
    /\ readback = 0

\* a dropped or panicked writer takes no more calls
SinkAlive == wret.op # "drop" /\ wret.res.kind # "panic"

SWriteBits(value, n, budget) ==
    /\ SinkAlive
    /\ Len(log) < MaxWrites
    /\ LET w == try_write_bits(writer, value, n, budget)
       IN /\ writer' = w.wr
          /\ wret' = [op |-> "write_bits", n |-> n, res |-> w.res,
                      flushed |-> wret.flushed \/ wret.op = "flush"]
          /\ log' = IF n \in 1..64 THEN Append(log, [value |-> value, n |-> n]) ELSE log
    /\ UNCHANGED <<overflow_checks, src, reader, ret, hist, shadowVars, fastVars, readback>>

SWrite(buf, budget) ==
    /\ SinkAlive
    /\ Len(log) < MaxWrites
    /\ LET w == try_write(writer, buf, budget)
       IN /\ writer' = w.wr
          /\ wret' = [op |-> "write", n |-> Len(buf), res |-> w.res,
                      flushed |-> wret.flushed \/ wret.op = "flush"]
          /\ log' = Append(log, [value |-> {}, n |-> 8 * Len(buf)])
    /\ UNCHANGED <<overflow_checks, src, reader, ret, hist, shadowVars, fastVars, readback>>

SFlush(budget) ==
    /\ SinkAlive
    /\ LET f == try_flush(writer, budget)
       IN /\ writer' = f.wr
          /\ wret' = [op |-> "flush", n |-> 0, res |-> f.res,
                      flushed |-> wret.flushed \/ wret.op = "flush"]
    /\ UNCHANGED <<overflow_checks, src, reader, ret, hist, shadowVars, fastVars, log,
                   readback>>

\* the writer goes out of scope: BitWriter has no Drop implementation, so its fields
\* are dropped as they are and the sink receives nothing
SDrop ==
    /\ SinkAlive
    /\ writer' = writer
    /\ wret' = [op |-> "drop", n |-> 0, res |-> Ok({}),
                flushed |-> wret.flushed \/ wret.op = "flush"]
    /\ UNCHANGED <<overflow_checks, src, reader, ret, hist, shadowVars, fastVars, log,
                   readback>>

NextSink ==
    \/ \E n \in SinkWidths, budget \in SinkBudgets : SWriteBits(TestWord, n, budget)
    \/ \E buf \in SinkBufs, budget \in SinkBudgets : SWrite(buf, budget)
    \/ \E budget \in SinkBudgets : SFlush(budget)
    \/ SDrop

SpecSink == InitSink /\ [][NextSink]_vars

\* C21: for every n in 1..64 and every reachable writer state, write_bits(value, n)
\* over a working sink succeeds and leaves the sink and the accumulator exactly as
\* write_bits(value mod 2^n, n) leaves them.
C21_OversizedValuesMasked ==
    [][ \A n \in SinkWidths \cap (1..64) :
          SWriteBits(TestWord, n, SinkWorks)
              => /\ wret'.res.kind = "Ok"
                 /\ writer' = try_write_bits(writer, TestWord \cap LowMask(n), n,
                                             SinkWorks).wr ]_vars

\* C23: after flush() returns successfully the register is 0 and the occupancy is 0;
\* no call changes a byte the sink already holds (what is written after a flush starts
\* in a fresh sink byte); a second flush with no write in between emits no byte.
C23_FlushResets ==
    [][ /\ (wret'.op = "flush" /\ wret'.res.kind = "Ok")
            => (writer'.bits_buffer = {} /\ writer'.bits_in_buffer = 0)
        /\ Len(writer'.inner) >= Len(writer.inner)
        /\ SubSeq(writer'.inner, 1, Len(writer.inner)) = writer.inner
        /\ (wret.op = "flush" /\ wret.res.kind = "Ok" /\ wret'.op = "flush")
            => writer'.inner = writer.inner ]_vars

\* a residue is flushed, another bit is written and flushed: two padded bytes
C23_Witness ==
    /\ wret.op = "flush" /\ wret.res.kind = "Ok" /\ wret.flushed
    /\ Len(log) = 2 /\ log[1].n = 1 /\ log[2].n = 1
    /\ Len(writer.inner) = 2

\* the buffered bits as bytes, oldest first, the last one padded per the bit order
RegisterBytes(order, reg, occ) ==
    [k \in 1..((occ + 7) \div 8) |->
        U64ToByte(IF order = "BigEndian" THEN Shr(reg, 64 - 8 * k)
                  ELSE Shr(reg, 8 * (k - 1)))]

\* C24: from every accumulator state (occupancy 0..64), a successful flush() emits
\* every whole buffered byte in order and then the padded partial byte.
C24_FlushLosesNoBit ==
    [][ (wret'.op = "flush" /\ wret'.res.kind = "Ok")
            => writer'.inner = writer.inner \o RegisterBytes(writer.byte_order,
                                                            writer.bits_buffer,
                                                            writer.bits_in_buffer) ]_vars

\* C27: after every successful write_bits or write call the occupancy is below 8.
C27_EagerDrain ==
    (wret.op \in {"write_bits", "write"} /\ wret.res.kind = "Ok")
        => writer.bits_in_buffer < 8

\* a 64-bit write behind a residue: 8 bytes are in the sink, the residue is buffered
C27_Witness ==
    /\ wret.op = "write_bits" /\ wret.res.kind = "Ok" /\ wret.n = 64
    /\ Len(writer.inner) = 8
    /\ writer.bits_in_buffer \in 1..7

\* C22: when a BitWriter holding 1..7 buffered bits goes out of scope without a flush,
\* those bits are written to the sink as one byte padded per the bit order.
C22_EndOfLifeDelivery ==
    [][ (SDrop /\ writer.bits_in_buffer \in 1..7)
            => writer'.inner = Append(writer.inner,
                                      PaddedByte(writer.byte_order, writer.bits_buffer,
                                                 writer.bits_in_buffer)) ]_vars

-----------------------------------------------------------------------------
(* SpecDevices: the program constructs one bit-level device, of either order, *)
(* and calls its bit-level operations: a PeekableBitReader (whose read_bits   *)
(* is that of the BitReader it wraps), a fast reader, or a BitWriter.  The    *)
(* devices that were not constructed are marked absent.                       *)

\* the widths offered to every device: FewWidths and one far above 64
DeviceWidths == FewWidths \cup {128}

Devices == {"PeekableBitReader", "FastBitReader", "BitWriter"}

NoReader == [byte_order |-> "absent", inner |-> 0, bits_buffer |-> {}, bits_in_buffer |-> 0]
NoFast == [byte_order |-> "absent", raw |-> 0, buffer |-> {}, bits_available |-> 0]
NoWriter == [byte_order |-> "absent", inner |-> <<>>, bits_buffer |-> {},
             bits_in_buffer |-> 0]

InitDevices ==
    /\ overflow_checks \in BOOLEAN
    /\ src \in FewStreams
    /\ \E order \in ByteOrders, device \in Devices :
          /\ reader = IF device = "PeekableBitReader" THEN NewReader(order) ELSE NoReader
          /\ fast = IF device = "FastBitReader" THEN NewFast(order) ELSE NoFast
          /\ writer = IF device = "BitWriter" THEN NewWriter(order) ELSE NoWriter
    /\ shadow = NoReader
    /\ ret = NoCall
    /\ hist = Unclean
    /\ sret = Ok({})
    /\ fret = Ok({})
    /\ wret = NoWrite
    /\ log = <<>>
    /\ readback = 0

\* BitReader::read_bits / PeekableBitReader::read_bits
DReadBits(n) ==
    /\ Alive
    /\ reader.byte_order \in ByteOrders
    /\ LET r == read_bits(reader, n)
       IN /\ reader' = r.rd
          /\ ret' = [op |-> "read_bits", n |-> n, res |-> r.res]
    /\ UNCHANGED <<overflow_checks, src, hist, shadowVars, fastVars, writerVars>>

\* PeekableBitReader::peek_bits
DPeekBits(n) ==
    /\ Alive
    /\ reader.byte_order \in ByteOrders
    /\ LET r == peek_bits(reader, n)
       IN /\ reader' = r.rd
          /\ ret' = [op |-> "peek_bits", n |-> n, res |-> r.res]
    /\ UNCHANGED <<overflow_checks, src, hist, shadowVars, fastVars, writerVars>>

\* FastBitReaderBig::read_bits_fast / FastBitReaderLittle::read_bits_fast
DReadBitsFast(n) ==
    /\ Alive
    /\ fast.byte_order \in ByteOrders
    /\ LET f == read_bits_fast(fast, n)
       IN /\ fret' = f.res
          /\ ret' = [op |-> "read_bits_fast", n |-> n, res |-> f.res]
          /\ IF f.res.kind = "Eof"
             THEN \E pos \in {f.fr.raw, Len(src)} : fast' = [f.fr EXCEPT !.raw = pos]
             ELSE fast' = f.fr
    /\ UNCHANGED <<overflow_checks, src, reader, hist, shadowVars, writerVars>>

\* BitWriter::write_bits
DWriteBits(value, n) ==
    /\ Alive
    /\ writer.byte_order \in ByteOrders
    /\ Len(log) < MaxWrites
    /\ LET w == write_bits(writer, value, n)
       IN /\ writer' = w.wr
          /\ wret' = [op |-> "write_bits", n |-> n, res |-> w.res, flushed |-> FALSE]
          /\ log' = IF w.res.kind = "Ok" THEN Append(log, [value |-> value, n |-> n])
                    ELSE log
    /\ UNCHANGED <<overflow_checks, src, reader, ret, hist, shadowVars, fastVars, readback>>

NextDevices ==
    \/ \E n \in DeviceWidths : DReadBits(n)
    \/ \E n \in DeviceWidths : DPeekBits(n)
    \/ \E n \in DeviceWidths : DReadBitsFast(n)
    \/ \E value \in Values, n \in DeviceWidths : DWriteBits(value, n)

SpecDevices == InitDevices /\ [][NextDevices]_vars

C14_InvalidBitCountNoMutation ==
    [][ /\ (ret'.op \in {"read_bits", "peek_bits"} /\ ret'.res.kind = "InvalidBitCount")
              => reader' = reader
        /\ (ret'.op = "read_bits_fast" /\ ret'.res.kind = "InvalidBitCount")
              => fast' = fast
        /\ (wret'.op = "write_bits" /\ wret'.res.kind = "InvalidBitCount")
              => (writer' = writer /\ log' = log) ]_vars

C14_Witness ==
    /\ ret.op = "peek_bits" /\ ret.n = 128 /\ ret.res.kind = "InvalidBitCount"
    /\ reader.bits_in_buffer \in 1..7 /\ reader.inner < Len(src)

\* C18: in every state the occupancy counter of the device (bits_in_buffer of a
\* reader or writer, bits_available of a fast reader) is in 0..64.
C18_OccupancyBound ==
    /\ reader.bits_in_buffer \in 0..64
    /\ fast.bits_available \in 0..64
    /\ writer.bits_in_buffer \in 0..64

\* C26: from every state a fast reader rests in and for every n in 1..64, every burst
\* of the fill loop of read_bits_fast fits: bits_available + 8 * needed_bytes <= 64
\* before it is merged.
C26_FastBurstFits ==
    \A n \in DeviceWidths \cap (1..64) :
        (Alive /\ fast.byte_order \in ByteOrders) => BurstsFit(fast, n)

\* the register bits outside the occupied region (the oldest occ bits: the high ones
\* MSB-first, the low ones LSB-first) are 0
RegisterClean(order, reg, occ) ==
    occ \in 0..64 =>
        reg \subseteq (IF order = "BigEndian" THEN (64 - occ)..63 ELSE 0..(occ - 1))

\* C30: in every state of a BitReader, a BitWriter and both fast readers, all register
\* bits outside the occupied region are 0.
C30_UnoccupiedBitsZero ==
    /\ reader.byte_order \in ByteOrders
           => RegisterClean(reader.byte_order, reader.bits_buffer, reader.bits_in_buffer)
    /\ fast.byte_order \in ByteOrders
           => RegisterClean(fast.byte_order, fast.buffer, fast.bits_available)
    /\ writer.byte_order \in ByteOrders
           => RegisterClean(writer.byte_order, writer.bits_buffer, writer.bits_in_buffer)

\* a reader rests on a residue of set bits after a successful read
C30_Witness ==
    /\ reader.byte_order \in ByteOrders
    /\ ret.op = "read_bits" /\ ret.res.kind = "Ok" /\ ret.n = MaxNarrow
    /\ reader.bits_in_buffer \in 1..7
    /\ reader.bits_buffer # {}

RECURSIVE AcceptedBits(_)
\* the widths of the accepted calls, added up
AcceptedBits(calls) ==
    IF calls = <<>> THEN 0 ELSE Head(calls).n + AcceptedBits(Tail(calls))

\* C31: on a fresh BitWriter that took only write_bits calls, accepting T bits in
\* all, the sink holds exactly floor(T / 8) bytes and the occupancy is T mod 8.
C31_WriterBitConservation ==
    writer.byte_order \in ByteOrders
        => LET T == AcceptedBits(log)
           IN /\ Len(writer.inner) = T \div 8
              /\ writer.bits_in_buffer = T % 8

\* 58 bits and then a narrow width: seven bytes are out, the rest is buffered
C31_Witness ==
    /\ writer.byte_order \in ByteOrders
    /\ Len(log) = 2 /\ log[1].n = 58 /\ log[2].n = MaxNarrow
    /\ Len(writer.inner) = 7
    /\ writer.bits_in_buffer = (58 + MaxNarrow) % 8

-----------------------------------------------------------------------------
(* SpecBulk: a BulkBitReader (reader is the BitReader it wraps) driven through *)
(* its read_bits                                                               *)

\* the widths offered: the invalid 0, two narrow ones, one chunk, and two and three
\* chunks with and without a remainder
BulkWidths == {0, 1, MaxNarrow, 64, 64 + MaxNarrow, 128, 130}

\* the sources: empty, one chunk and a byte, and twice that
BulkStreams == StreamsOf({"ones", "ramp"}, {0, MaxLen, 2 * MaxLen})

InitBulk ==
    /\ overflow_checks \in BOOLEAN
    /\ src \in BulkStreams
    /\ \E order \in ByteOrders :
          /\ reader = NewReader(order)
          /\ shadow = NewReader(order)
    /\ ret = NoCall
    /\ hist = [start |-> 0, clean |-> TRUE]
    /\ sret = Ok({})
    /\ fast = IdleFast
    /\ fret = Ok({})
    /\ writer = IdleWriter
    /\ wret = NoWrite
    /\ log = <<>>
    /\ readback = 0

\* ghost: the call starts where the earlier calls' widths end; it is clean while every
\* call so far has a width of at least 1 that the stream can still satisfy
BulkHist(n) ==
    LET start == hist.start + ret.n
        clean == hist.clean /\ n >= 1 /\ start + n <= 8 * Len(src)
    IN IF clean THEN [start |-> start, clean |-> TRUE] ELSE Unclean

BulkReadBits(n) ==
    /\ Alive
    /\ LET r == bulk_read_bits(reader, n)
       IN /\ reader' = r.rd
          /\ ret' = [op |-> "bulk_read_bits", n |-> n, res |-> r.res]
    /\ hist' = BulkHist(n)
    /\ UNCHANGED <<overflow_checks, src, shadowVars, fastVars, writerVars>>

NextBulk == \E n \in BulkWidths : BulkReadBits(n)

SpecBulk == InitBulk /\ [][NextBulk]_vars

\* the values a bulk read of n bits starting at stream bit start owes: ceil(n / 64)
\* chunks, chunk i holding the stream bits from start + 64 * (i - 1) on, 64 of them
\* except in a last chunk of n mod 64 bits
IdealChunks(order, s, start, n) ==
    [i \in 1..((n + 63) \div 64) |->
        LET from == start + 64 * (i - 1)
            width == Min(64, n - 64 * (i - 1))
        IN IF order = "BigEndian" THEN MsbValue(s, from, width)
           ELSE LsbValue(s, from, width)]

\* C17: while every call so far has n >= 1 and the stream holds enough data, a bulk
\* read_bits(n) returns exactly the ceil(n / 64) chunks of the next n stream bits in
\* the configured order and has consumed exactly n bits; read_bits(0) returns
\* InvalidBitCount.
C17_BulkChunking ==
    /\ (ret.op = "bulk_read_bits" /\ ret.n = 0) => ret.res.kind = "InvalidBitCount"
    /\ (ret.op = "bulk_read_bits" /\ hist.clean)
          => /\ ret.res.kind = "Ok"
             /\ ret.res.chunks = IdealChunks(reader.byte_order, src, hist.start, ret.n)
             /\ 8 * reader.inner - reader.bits_in_buffer = hist.start + ret.n

-----------------------------------------------------------------------------
(* SpecMixed: a BitReader driven through read_bits, the byte passthrough read *)
(* and the alignment query.  Here hist.start is the number of bits the calls  *)
(* before the last one consumed, and hist.clean says that each of them        *)
(* returned Ok.                                                               *)

\* the widths offered: narrow ones, a byte, and the widest
MixedWidths == (0..MaxNarrow) \cup {8, 64}

\* the sources: every length up to one byte more than a 64-bit read after a residue
MixedStreams == StreamsOf({"ones", "ramp"}, 0..(MaxLen + 1))

\* the bits the last call consumed, if it returned Ok
LastBits ==
    CASE ret.op = "read_bits" -> ret.n
      [] ret.op = "read" -> 8 * Len(ret.res.bytes)
      [] OTHER -> 0

\* ghost: the next call starts after the bits consumed so far; clean while every call
\* so far returned Ok
MixedHist ==
    IF hist.clean /\ ret.res.kind = "Ok"
    THEN [start |-> hist.start + LastBits, clean |-> TRUE]
    ELSE Unclean

InitMixed ==
    /\ overflow_checks \in BOOLEAN
    /\ src \in MixedStreams
    /\ \E order \in ByteOrders :
          /\ reader = NewReader(order)
          /\ shadow = NewReader(order)
    /\ ret = NoCall
    /\ hist = [start |-> 0, clean |-> TRUE]
    /\ sret = Ok({})
    /\ fast = IdleFast
    /\ fret = Ok({})
    /\ writer = IdleWriter
    /\ wret = NoWrite
    /\ log = <<>>
    /\ readback = 0

MReadBits(n) ==
    /\ Alive
    /\ LET r == read_bits(reader, n)
       IN /\ reader' = r.rd
          /\ ret' = [op |-> "read_bits", n |-> n, res |-> r.res]
    /\ hist' = MixedHist
    /\ UNCHANGED <<overflow_checks, src, shadowVars, fastVars, writerVars>>

MRead(len) ==
    /\ Alive
    /\ LET r == read(reader, len)
       IN /\ reader' = r.rd
          /\ ret' = [op |-> "read", n |-> len, res |-> r.res]
    /\ hist' = MixedHist
    /\ UNCHANGED <<overflow_checks, src, shadowVars, fastVars, writerVars>>

MIsByteAligned ==
    /\ Alive
    /\ ret' = [op |-> "is_byte_aligned", n |-> 0, res |-> OkBool(is_byte_aligned(reader))]
    /\ hist' = MixedHist
    /\ UNCHANGED <<overflow_checks, src, reader, shadowVars, fastVars, writerVars>>

NextMixed ==
    \/ \E n \in MixedWidths : MReadBits(n)
    \/ \E len \in 0..MaxBuf : MRead(len)
    \/ MIsByteAligned

SpecMixed == InitMixed /\ [][NextMixed]_vars

\* C19: after read_bits and read calls that all returned Ok, is_byte_aligned() is
\* true exactly when occupancy mod 8 = 0, and that is exactly when the number of bits
\* consumed so far is a multiple of 8.
C19_AlignmentQuery ==
    (ret.op = "is_byte_aligned" /\ hist.clean)
        => /\ ret.res.flag <=> (reader.bits_in_buffer % 8 = 0)
           /\ (reader.bits_in_buffer % 8 = 0) <=> (hist.start % 8 = 0)

C19_Witness ==
    /\ ret.op = "is_byte_aligned" /\ hist.clean
    /\ ~ret.res.flag /\ hist.start = 8 * MaxBuf + MaxNarrow
    /\ reader.bits_in_buffer = 8 - MaxNarrow

\* the bytes a read of len bytes owes when start bits (a multiple of 8) are consumed
StreamBytes(start, len) == SubSeq(src, (start \div 8) + 1, Min(Len(src), (start \div 8) + len))

\* the value a read_bits(n) owes when start bits are consumed
StreamValue(order, start, n) ==
    IF order = "BigEndian" THEN MsbValue(src, start, n) ELSE LsbValue(src, start, n)

\* C20: while every call so far returned Ok, a read(buf) issued when the bits consumed
\* are a multiple of 8 and returning Ok returns the stream bytes that follow the last
\* consumed bit, and a read_bits issued right after a read returns the stream bits
\* that follow the bytes the read returned.
C20_MixedReadsContiguous ==
    [][ /\ \A len \in 0..MaxBuf :
              (MRead(len) /\ hist'.clean /\ hist'.start % 8 = 0 /\ ret'.res.kind = "Ok")
                  => ret'.res.bytes = StreamBytes(hist'.start, len)
        /\ \A n \in MixedWidths :
              (MReadBits(n) /\ ret.op = "read" /\ hist'.clean /\ ret'.res.kind = "Ok")
                  => ret'.res.val = StreamValue(reader.byte_order, hist'.start, n) ]_vars

\* C29: once every bit of the stream has been consumed by calls that all returned Ok,
\* read_bits(n) with n in 1..64 fails and leaves the register and the occupancy as they
\* were (it leaves the whole reader as it was, so the next call meets the same state).
C29_ExhaustionStable ==
    [][ \A n \in MixedWidths \cap (1..64) :
          (MReadBits(n) /\ hist'.clean /\ hist'.start >= 8 * Len(src))
              => /\ ret'.res.kind \notin {"Ok", "panic"}
                 /\ reader' = reader ]_vars

-----------------------------------------------------------------------------
(* SpecDrain: read applied to every state a BitReader value rests in.  Between *)
(* its own read_bits and read calls a BitReader holds 0..7 bits; the BitReader *)
(* that a PeekableBitReader wraps also rests with whole bytes buffered, after  *)
(* a peek_bits.  The reader here takes read_bits, peek_bits (as the wrapped    *)
(* reader does) and read.  Here hist.clean says that no call so far met the    *)
(* end of the stream.                                                          *)

\* the widths offered: narrow ones, one and two bytes, and the widest
DrainWidths == {0, 1, MaxNarrow, 8, 16, 64}

\* the sources: bytes that all differ, of every length up to MaxLen
DrainStreams == StreamsOf({"ramp"}, 0..MaxLen)

InitDrain ==
    /\ overflow_checks \in BOOLEAN
    /\ src \in DrainStreams
    /\ \E order \in ByteOrders :
          /\ reader = NewReader(order)
          /\ shadow = NewReader(order)
    /\ ret = NoCall
    /\ hist = [start |-> 0, clean |-> TRUE]
    /\ sret = Ok({})
    /\ fast = IdleFast
    /\ fret = Ok({})
    /\ writer = IdleWriter
    /\ wret = NoWrite
    /\ log = <<>>
    /\ readback = 0

\* ghost: a call that meets the end of the stream ends the clean history
DrainHist(res) ==
    IF hist.clean /\ res.kind # "UnexpectedEof" THEN hist ELSE Unclean

GReadBits(n) ==
    /\ Alive
    /\ LET r == read_bits(reader, n)
       IN /\ reader' = r.rd
          /\ ret' = [op |-> "read_bits", n |-> n, res |-> r.res]
          /\ hist' = DrainHist(r.res)
    /\ UNCHANGED <<overflow_checks, src, shadowVars, fastVars, writerVars>>

GPeekBits(n) ==
    /\ Alive
    /\ LET r == peek_bits(reader, n)
       IN /\ reader' = r.rd
          /\ ret' = [op |-> "peek_bits", n |-> n, res |-> r.res]
          /\ hist' = DrainHist(r.res)
    /\ UNCHANGED <<overflow_checks, src, shadowVars, fastVars, writerVars>>

GRead(len) ==
    /\ Alive
    /\ LET r == read(reader, len)
       IN /\ reader' = r.rd
          /\ ret' = [op |-> "read", n |-> len, res |-> r.res]
          /\ hist' = DrainHist(r.res)
    /\ UNCHANGED <<overflow_checks, src, shadowVars, fastVars, writerVars>>

NextDrain ==
    \/ \E n \in DrainWidths : GReadBits(n)
    \/ \E n \in DrainWidths : GPeekBits(n)
    \/ \E len \in 0..MaxBuf : GRead(len)

SpecDrain == InitDrain /\ [][NextDrain]_vars

-----------------------------------------------------------------------------
(* SpecLoops: the two bit-level loops that run until a condition holds.  The   *)
(* program constructs a BitWriter over a sink that may fail, or a fast reader, *)
(* and calls write_bits or read_bits_fast; the loops are followed round by     *)
(* round from every state the device rests in.                                 *)

RECURSIVE InsertRoundsCount(_, _, _, _, _)
\* the while loop of write_bits (remaining > 0), counted: k rounds have run
InsertRoundsCount(wr, val, remaining, budget, k) ==
    IF remaining = 0 THEN [rounds |-> k, kind |-> "Ok"]
    ELSE LET available == 64 - wr.bits_in_buffer
             to_insert == Min(remaining, available)
             insert_at_next_round == remaining - to_insert
             to_insert_val == Shr(val, insert_at_next_round % 64)
             shift == IF wr.byte_order = "BigEndian" THEN available - to_insert
                      ELSE wr.bits_in_buffer
             overflows == \/ ShrOverflows(insert_at_next_round)
                          \/ ShlOverflows(shift)
             inserted == [wr EXCEPT !.bits_buffer = @ \cup Shl(to_insert_val, shift % 64),
                                    !.bits_in_buffer = @ + to_insert]
             rest == IF insert_at_next_round > 0
                     THEN val \cap LowMask(insert_at_next_round % 64) ELSE val
             d == IF inserted.bits_in_buffer >= 8 \/ insert_at_next_round = 0
                  THEN try_write_aligned_bytes_to_inner(inserted, budget)
                  ELSE [wr |-> inserted, kind |-> "Ok", budget |-> budget]
         IN IF overflows /\ overflow_checks THEN [rounds |-> k + 1, kind |-> "panic"]
            ELSE IF d.kind # "Ok" THEN [rounds |-> k + 1, kind |-> d.kind]
            ELSE InsertRoundsCount(d.wr, rest, insert_at_next_round, d.budget, k + 1)

RECURSIVE FillIterations(_, _, _)
\* the while loop of read_bits_fast (bits_available < n), counted: k iterations have
\* run; grew says that each iteration that ran to its end added at least 8 bits.
\* The loop ends with the register filled ("Ok"), with the error of read_exact ("Eof"),
\* or in a panic at the subtraction of the Big variant.
FillIterations(fr, n, k) ==
    IF fr.bits_available >= n THEN [iterations |-> k, kind |-> "Ok", grew |-> TRUE]
    ELSE LET remaining_bits == n - fr.bits_available
             max_bytes == (64 - fr.bits_available) \div 8
             capped == Min((remaining_bits + 7) \div 8, max_bytes)
             needed_bytes == IF capped < 1 THEN 1 ELSE capped
             new_bits == needed_bytes * 8
             shift == 64 - fr.bits_available - new_bits
             next == FillIterations([fr EXCEPT !.raw = @ + needed_bytes,
                                               !.bits_available = @ + new_bits],
                                    n, k + 1)
         IN IF Len(src) - fr.raw < needed_bytes
            THEN [iterations |-> k + 1, kind |-> "Eof", grew |-> TRUE]
            ELSE IF fr.byte_order = "BigEndian" /\ shift < 0 /\ overflow_checks
                 THEN [iterations |-> k + 1, kind |-> "panic", grew |-> TRUE]
                 ELSE [next EXCEPT !.grew = @ /\ new_bits >= 8]

\* the devices of this specification
LoopDevices == {"FastBitReader", "BitWriter"}

InitLoops ==
    /\ overflow_checks \in BOOLEAN
    /\ src \in FewStreams
    /\ \E order \in ByteOrders, device \in LoopDevices :
          /\ fast = IF device = "FastBitReader" THEN NewFast(order) ELSE NoFast
          /\ writer = IF device = "BitWriter" THEN NewWriter(order) ELSE NoWriter
    /\ reader = NoReader
    /\ shadow = NoReader
    /\ ret = NoCall
    /\ hist = Unclean
    /\ sret = Ok({})
    /\ fret = Ok({})
    /\ wret = NoWrite
    /\ log = <<>>
    /\ readback = 0

\* FastBitReaderBig::read_bits_fast / FastBitReaderLittle::read_bits_fast
LReadBitsFast(n) ==
    /\ Alive
    /\ fast.byte_order \in ByteOrders
    /\ LET f == read_bits_fast(fast, n)
       IN /\ fret' = f.res
          /\ ret' = [op |-> "read_bits_fast", n |-> n, res |-> f.res]
          /\ IF f.res.kind = "Eof"
             THEN \E pos \in {f.fr.raw, Len(src)} : fast' = [f.fr EXCEPT !.raw = pos]
             ELSE fast' = f.fr
    /\ UNCHANGED <<overflow_checks, src, reader, hist, shadowVars, writerVars>>

\* BitWriter::write_bits over a sink that takes budget bytes during the call
LWriteBits(value, n, budget) ==
    /\ Alive
    /\ writer.byte_order \in ByteOrders
    /\ Len(log) < MaxWrites
    /\ LET w == try_write_bits(writer, value, n, budget)
       IN /\ writer' = w.wr
          /\ wret' = [op |-> "write_bits", n |-> n, res |-> w.res, flushed |-> FALSE]
          /\ log' = IF n \in 1..64 THEN Append(log, [value |-> value, n |-> n]) ELSE log
    /\ UNCHANGED <<overflow_checks, src, reader, ret, hist, shadowVars, fastVars, readback>>

NextLoops ==
    \/ \E n \in FewWidths : LReadBitsFast(n)
    \/ \E n \in SinkWidths, budget \in SinkBudgets : LWriteBits(TestWord, n, budget)

SpecLoops == InitLoops /\ [][NextLoops]_vars

\* C33: from every state a device rests in and for every n in 1..64, the insertion
\* loop of write_bits finishes after at most two rounds, and every iteration of the
\* fill loop of read_bits_fast adds at least 8 bits or returns an error, so the call
\* returns within ceil(n / 8) iterations.
C33_BitLevelCallsTerminate ==
    /\ (Alive /\ writer.byte_order \in ByteOrders) =>
          \A n \in SinkWidths \cap (1..64), budget \in SinkBudgets :
              LET w == InsertRoundsCount(writer, TestWord \cap LowMask(n), n, budget, 0)
              IN w.rounds <= 2
    /\ (Alive /\ fast.byte_order \in ByteOrders) =>
          \A n \in FewWidths \cap (1..64) :
              LET f == FillIterations(fast, n, 0)
              IN /\ f.kind \in {"Ok", "Eof"}
                 /\ f.grew
                 /\ f.iterations <= (n + 7) \div 8

=============================================================================
